---- MODULE Spec2Model ----
(***************************************************************************)
(* Model of pallets/collective-proxy/src/lib.rs: the bounded registry of   *)
(* proxy definitions (storage value Proxies) and the three extrinsics      *)
(* execute_call, add_proxy and remove_proxy.  Every extrinsic runs to      *)
(* completion as one step (extrinsics are executed one after another).     *)
(***************************************************************************)
EXTENDS Naturals, Sequences, FiniteSets

(* ------------------------------------------------------------------ *)
(* Configuration (trait Config) and input domains                      *)
(* ------------------------------------------------------------------ *)

\* T::MaxProxies, the capacity of the BoundedVec held in Proxies.
MaxProxies == 2

\* Longest list of nested calls a submitted call may issue.
MaxSubCalls == 1

\* T::AccountId values used as proxies and as signers.
Accounts == {"A", "B"}

\* Kinds of runtime call a filter can tell apart.
Actions == {"transfer", "stake"}

\* T::CallFilter values: a filter is the set of call kinds it lets through.
Filters == SUBSET Actions

\* InstanceFilter::filter, "does this filter permit this call?"
permits(f, c) == c \in f

\* InstanceFilter::is_superset, "is filter f at least as permissive as o?"
is_superset(f, o) == o \subseteq f

\* A RuntimeOrigin: the caller (frame_system::RawOrigin) plus the call
\* filters that were added to the origin with add_filter.
RawOrigin(kind, who) == [kind |-> kind, who |-> who, filters |-> <<>>]

Root == RawOrigin("Root", "-")

None == RawOrigin("None", "-")

Signed(who) == RawOrigin("Signed", who)

\* The origins extrinsics are submitted with.
Origins == {Root, None} \cup {Signed(a) : a \in Accounts}

\* Origins accepted by T::CollectiveProxy (the executor gate).
CollectiveProxy == {Root, Signed("A")}

\* Origins accepted by T::ProxyAdmin (the admin gate).
ProxyAdmin == {Root, Signed("B")}

\* EnsureOrigin::ensure_origin: Ok, or Err(BadOrigin).
ensure_origin(gate, origin) == origin \in gate

\* Sequences over S of length at most n.
SeqUpTo(S, n) == UNION {[1..k -> S] : k \in 0..n}

\* A RuntimeCall: its own kind, the nested calls it issues with the origin
\* it was dispatched with, and whether its own body ends in an error.  A
\* call that issues nested calls is a batch: it has no failure of its own.
Calls ==
    {c \in [kind : Actions, subs : SeqUpTo(Actions, MaxSubCalls), fails : BOOLEAN] :
        c.subs # <<>> => ~c.fails}

\* DispatchResult values.
Ok == [tag |-> "Ok", error |-> "-"]

Err(e) == [tag |-> "Err", error |-> e]

(* ------------------------------------------------------------------ *)
(* State                                                               *)
(* ------------------------------------------------------------------ *)

VARIABLES
    Proxies,     \* storage value Proxies: sequence of ProxyDefinition
    last,        \* the extrinsic executed last: arguments, result, registry before it
    events,      \* events deposited by the extrinsic executed last
    dispatches,  \* calls dispatched by the extrinsic executed last
    follows_add, \* `last` is an add_proxy or remove_proxy that came right after an
                 \* add_proxy with the same proxy and filter that returned Ok
    add_pre,     \* when follows_add: the registry before that add_proxy
    added        \* proxies for which an add_proxy returned Ok and no remove_proxy
                 \* was called since

vars == <<Proxies, last, events, dispatches, follows_add, add_pre, added>>

ProxyDefinition(proxy, filter) == [proxy |-> proxy, filter |-> filter]

(* ------------------------------------------------------------------ *)
(* The dispatch facility: call.dispatch(origin)                        *)
(* ------------------------------------------------------------------ *)

\* OriginTrait::filter_call: every filter added to the origin must accept.
filter_call(origin, c) == \A i \in 1..Len(origin.filters) : permits(origin.filters[i], c)

\* OriginTrait::add_filter: the new filter is checked on top of the old ones.
add_filter(origin, f) == [origin EXCEPT !.filters = Append(@, f)]

\* Nested calls of `call` that the origin's filter rejects.
RejectedSubs(origin, call) == {i \in 1..Len(call.subs) : ~filter_call(origin, call.subs[i])}

\* Dispatchable::dispatch: a call the origin's filter rejects is not run and
\* yields CallFiltered; a nested call issued with the same origin is checked
\* the same way and its rejection fails the enclosing call.  The result is a
\* DispatchResultWithPostInfo (post_info accompanies both Ok and Err).
dispatch(call, origin) ==
    IF ~filter_call(origin, call.kind)
    THEN [tag |-> "Err", error |-> "CallFiltered", post_info |-> "unspent", ran |-> <<>>]
    ELSE IF RejectedSubs(origin, call) # {}
    THEN [tag |-> "Err", error |-> "CallFiltered", post_info |-> "spent", ran |-> <<call.kind>>]
    ELSE IF call.fails
    THEN [tag |-> "Err", error |-> "Other", post_info |-> "spent", ran |-> <<call.kind>> \o call.subs]
    ELSE [tag |-> "Ok", error |-> "-", post_info |-> "spent", ran |-> <<call.kind>> \o call.subs]

(* ------------------------------------------------------------------ *)
(* Pallet functions                                                    *)
(* ------------------------------------------------------------------ *)

\* Mutant of FirstIndex: the last match is taken (rfind for find).
FirstIndex_last(ps, proxy) ==
    IF \E i \in 1..Len(ps) : ps[i].proxy = proxy
    THEN CHOOSE i \in 1..Len(ps) :
            /\ ps[i].proxy = proxy
            /\ \A j \in (i + 1)..Len(ps) : ps[j].proxy # proxy
    ELSE 0

\* Index of the first element of ps satisfying x.proxy == proxy, 0 if none.
FirstIndex(ps, proxy) ==
    IF \E i \in 1..Len(ps) : ps[i].proxy = proxy
    THEN CHOOSE i \in 1..Len(ps) :
            /\ ps[i].proxy = proxy
            /\ \A j \in 1..(i - 1) : ps[j].proxy # proxy
    ELSE 0

\* Mutant of find_proxy: of several definitions for the proxy, one whose
\* filter no other definition for the proxy strictly exceeds is returned.
find_proxy_widest(ps, proxy) ==
    IF FirstIndex(ps, proxy) = 0
    THEN [result |-> Err("NotFound"), def |-> ProxyDefinition(proxy, {})]
    ELSE [result |-> Ok,
          def |-> ps[CHOOSE i \in 1..Len(ps) :
                        /\ ps[i].proxy = proxy
                        /\ \A j \in 1..Len(ps) :
                              (ps[j].proxy = proxy /\ is_superset(ps[j].filter, ps[i].filter))
                                  => ps[j].filter = ps[i].filter]]

\* Mutant of find_proxy: an absent proxy resolves to a definition with the
\* default filter instead of NotFound (unwrap_or_default for ok_or).
find_proxy_default(ps, proxy) ==
    IF FirstIndex(ps, proxy) = 0
    THEN [result |-> Ok, def |-> ProxyDefinition(proxy, {})]
    ELSE [result |-> Ok, def |-> ps[FirstIndex(ps, proxy)]]

\* find_proxy: Proxies::get().into_iter().find(f).ok_or(NotFound)
find_proxy(ps, proxy) ==
    IF FirstIndex(ps, proxy) = 0
    THEN [result |-> Err("NotFound"), def |-> ProxyDefinition(proxy, {})]
    ELSE [result |-> Ok, def |-> ps[FirstIndex(ps, proxy)]]

\* Mutant of try_push: the capacity is not checked (push for try_push).
try_push_unchecked(ps, def) == [ok |-> TRUE, vec |-> Append(ps, def)]

\* BoundedVec::try_push: Err(item) and no change when the vector is full.
try_push(ps, def) ==
    IF Len(ps) < MaxProxies
    THEN [ok |-> TRUE, vec |-> Append(ps, def)]
    ELSE [ok |-> FALSE, vec |-> ps]

\* Mutant of DelegatedOrigin: the add_filter call is missing.
DelegatedOrigin_unfiltered(def) == Signed(def.proxy)

\* The origin the call is dispatched with: Signed(def.proxy) with the
\* definition's filter added.
DelegatedOrigin(def) == add_filter(Signed(def.proxy), def.filter)

\* Mutant of EventResult: the event always reports success.
EventResult_ok(e) == Ok

\* The event's result: e.map(|_| ()).map_err(|e| e.error)
EventResult(e) == IF e.tag = "Ok" THEN Ok ELSE Err(e.error)

CollectiveProxyExecuted(result) == [event |-> "CollectiveProxyExecuted", result |-> result]

\* Mutant of execute_call: the proxy is resolved before the origin is checked.
execute_call_lookup_first(ps, origin, proxy, call) ==
    IF find_proxy(ps, proxy).result # Ok
    THEN [result |-> find_proxy(ps, proxy).result, events |-> <<>>, dispatches |-> <<>>]
    ELSE IF ~ensure_origin(CollectiveProxy, origin)
    THEN [result |-> Err("BadOrigin"), events |-> <<>>, dispatches |-> <<>>]
    ELSE LET def == find_proxy(ps, proxy).def
             o   == DelegatedOrigin(def)
             e   == dispatch(call, o)
         IN  [result     |-> Ok,
              events     |-> <<CollectiveProxyExecuted(EventResult(e))>>,
              dispatches |-> <<[origin |-> o, call |-> call, outcome |-> e]>>]

\* Mutant of execute_call: the ensure_origin line is missing.
execute_call_ungated(ps, origin, proxy, call) ==
    IF find_proxy(ps, proxy).result # Ok
    THEN [result |-> find_proxy(ps, proxy).result, events |-> <<>>, dispatches |-> <<>>]
    ELSE LET def == find_proxy(ps, proxy).def
             o   == DelegatedOrigin(def)
             e   == dispatch(call, o)
         IN  [result     |-> Ok,
              events     |-> <<CollectiveProxyExecuted(EventResult(e))>>,
              dispatches |-> <<[origin |-> o, call |-> call, outcome |-> e]>>]

\* Mutant of execute_call: the caller's origin is kept (the filter is added
\* to it) instead of being replaced by Signed(def.proxy).
execute_call_as_caller(ps, origin, proxy, call) ==
    IF ~ensure_origin(CollectiveProxy, origin)
    THEN [result |-> Err("BadOrigin"), events |-> <<>>, dispatches |-> <<>>]
    ELSE IF find_proxy(ps, proxy).result # Ok
    THEN [result |-> find_proxy(ps, proxy).result, events |-> <<>>, dispatches |-> <<>>]
    ELSE LET def == find_proxy(ps, proxy).def
             o   == add_filter(origin, def.filter)
             e   == dispatch(call, o)
         IN  [result     |-> Ok,
              events     |-> <<CollectiveProxyExecuted(EventResult(e))>>,
              dispatches |-> <<[origin |-> o, call |-> call, outcome |-> e]>>]

\* execute_call: result of the extrinsic, events deposited, calls dispatched.
execute_call(ps, origin, proxy, call) ==
    IF ~ensure_origin(CollectiveProxy, origin)
    THEN [result |-> Err("BadOrigin"), events |-> <<>>, dispatches |-> <<>>]
    ELSE IF find_proxy(ps, proxy).result # Ok
    THEN [result |-> find_proxy(ps, proxy).result, events |-> <<>>, dispatches |-> <<>>]
    ELSE LET def == find_proxy(ps, proxy).def
             o   == DelegatedOrigin(def)
             e   == dispatch(call, o)
         IN  [result     |-> Ok,
              events     |-> <<CollectiveProxyExecuted(EventResult(e))>>,
              dispatches |-> <<[origin |-> o, call |-> call, outcome |-> e]>>]

\* Mutant of add_proxy_closure: the capacity is checked before the search
\* for a covering definition.
add_proxy_closure_full_first(ps, proxy, filter) ==
    IF ~try_push(ps, ProxyDefinition(proxy, filter)).ok
    THEN [result |-> Err("TooManyProxies"), vec |-> ps]
    ELSE IF ~(\E i \in 1..Len(ps) : ps[i].proxy = proxy /\ is_superset(ps[i].filter, filter))
    THEN [result |-> Ok, vec |-> try_push(ps, ProxyDefinition(proxy, filter)).vec]
    ELSE [result |-> Ok, vec |-> ps]

\* Mutant of add_proxy_closure: is_superset is asked the other way round
\* (filter.is_superset(&p.filter)).
add_proxy_closure_reversed(ps, proxy, filter) ==
    IF ~(\E i \in 1..Len(ps) : ps[i].proxy = proxy /\ is_superset(filter, ps[i].filter))
    THEN IF try_push(ps, ProxyDefinition(proxy, filter)).ok
         THEN [result |-> Ok, vec |-> try_push(ps, ProxyDefinition(proxy, filter)).vec]
         ELSE [result |-> Err("TooManyProxies"),
               vec |-> try_push(ps, ProxyDefinition(proxy, filter)).vec]
    ELSE [result |-> Ok, vec |-> ps]

\* Mutant of add_proxy_closure: the error of try_push is dropped.
add_proxy_closure_swallow(ps, proxy, filter) ==
    IF ~(\E i \in 1..Len(ps) : ps[i].proxy = proxy /\ is_superset(ps[i].filter, filter))
    THEN [result |-> Ok, vec |-> try_push(ps, ProxyDefinition(proxy, filter)).vec]
    ELSE [result |-> Ok, vec |-> ps]

\* Mutant of add_proxy_closure: only a strictly larger filter counts as covering.
add_proxy_closure_strict(ps, proxy, filter) ==
    IF ~(\E i \in 1..Len(ps) : /\ ps[i].proxy = proxy
                                /\ is_superset(ps[i].filter, filter)
                                /\ ps[i].filter # filter)
    THEN IF try_push(ps, ProxyDefinition(proxy, filter)).ok
         THEN [result |-> Ok, vec |-> try_push(ps, ProxyDefinition(proxy, filter)).vec]
         ELSE [result |-> Err("TooManyProxies"),
               vec |-> try_push(ps, ProxyDefinition(proxy, filter)).vec]
    ELSE [result |-> Ok, vec |-> ps]

\* The closure of add_proxy's try_mutate: Ok and the new value, or Err.
add_proxy_closure(ps, proxy, filter) ==
    IF ~(\E i \in 1..Len(ps) : ps[i].proxy = proxy /\ is_superset(ps[i].filter, filter))
    THEN IF try_push(ps, ProxyDefinition(proxy, filter)).ok
         THEN [result |-> Ok, vec |-> try_push(ps, ProxyDefinition(proxy, filter)).vec]
         ELSE [result |-> Err("TooManyProxies"),
               vec |-> try_push(ps, ProxyDefinition(proxy, filter)).vec]
    ELSE [result |-> Ok, vec |-> ps]

\* StorageValue::try_mutate: the value is written back only on Ok.
try_mutate(ps, r) == IF r.result = Ok THEN r.vec ELSE ps

\* Mutant of add_proxy: the origin is checked against the wrong gate.
add_proxy_wrong_gate(ps, origin, proxy, filter) ==
    IF ~ensure_origin(CollectiveProxy, origin)
    THEN [result |-> Err("BadOrigin"), proxies |-> ps]
    ELSE [result  |-> add_proxy_closure(ps, proxy, filter).result,
          proxies |-> try_mutate(ps, add_proxy_closure(ps, proxy, filter))]

\* add_proxy: result of the extrinsic and the registry after it.
add_proxy(ps, origin, proxy, filter) ==
    IF ~ensure_origin(ProxyAdmin, origin)
    THEN [result |-> Err("BadOrigin"), proxies |-> ps]
    ELSE [result  |-> add_proxy_closure(ps, proxy, filter).result,
          proxies |-> try_mutate(ps, add_proxy_closure(ps, proxy, filter))]

\* Mutant of retain: the predicate is inverted (def == &proxy_def).
retain_inverted(ps, proxy_def) == SelectSeq(ps, LAMBDA d : d = proxy_def)

\* Mutant of retain: only the proxy is compared.
retain_by_proxy(ps, proxy_def) == SelectSeq(ps, LAMBDA d : d.proxy # proxy_def.proxy)

\* Mutant of retain: only the filter is compared.
retain_by_filter(ps, proxy_def) == SelectSeq(ps, LAMBDA d : d.filter # proxy_def.filter)

\* Vec::retain: keep, in order, the elements satisfying keep.
RECURSIVE retain(_, _)
retain(ps, proxy_def) ==
    IF ps = <<>> THEN <<>>
    ELSE IF Head(ps) # proxy_def
         THEN <<Head(ps)>> \o retain(Tail(ps), proxy_def)
         ELSE retain(Tail(ps), proxy_def)

\* Mutant of remove_proxy: the ensure_origin line is missing.
remove_proxy_ungated(ps, origin, proxy, filter) ==
    [result  |-> Ok,
     proxies |-> try_mutate(ps, [result |-> Ok,
                                 vec |-> retain(ps, ProxyDefinition(proxy, filter))])]

\* remove_proxy: result of the extrinsic and the registry after it.
remove_proxy(ps, origin, proxy, filter) ==
    IF ~ensure_origin(ProxyAdmin, origin)
    THEN [result |-> Err("BadOrigin"), proxies |-> ps]
    ELSE [result  |-> Ok,
          proxies |-> try_mutate(ps, [result |-> Ok,
                                      vec |-> retain(ps, ProxyDefinition(proxy, filter))])]

(* ------------------------------------------------------------------ *)
(* Specification                                                       *)
(* ------------------------------------------------------------------ *)

NoCall == [kind |-> "-", subs |-> <<>>, fails |-> FALSE]

Record(op, origin, proxy, filter, call, result, pre) ==
    [op |-> op, origin |-> origin, proxy |-> proxy, filter |-> filter,
     call |-> call, result |-> result, pre |-> pre]

\* The extrinsic l was an add_proxy(proxy, filter) that returned Ok.
AddedOk(l, proxy, filter) ==
    l.op = "add_proxy" /\ l.result = Ok /\ l.proxy = proxy /\ l.filter = filter

Init ==
    /\ Proxies = <<>>
    /\ last = Record("none", None, "-", {}, NoCall, Ok, <<>>)
    /\ events = <<>>
    /\ dispatches = <<>>
    /\ follows_add = FALSE
    /\ add_pre = <<>>
    /\ added = {}

\* Mutant of ExecuteCall: a definition is used up by the call it was
\* resolved for.
ExecuteCall_consumes ==
    \E origin \in Origins, proxy \in Accounts, call \in Calls :
        LET r == execute_call(Proxies, origin, proxy, call)
        IN  /\ Proxies' = (IF r.dispatches # <<>>
                            THEN retain(Proxies, find_proxy(Proxies, proxy).def)
                            ELSE Proxies)
            /\ last' = Record("execute_call", origin, proxy, {}, call, r.result, Proxies)
            /\ events' = r.events
            /\ dispatches' = r.dispatches
            /\ follows_add' = FALSE
            /\ add_pre' = <<>>
            /\ UNCHANGED added

ExecuteCall ==
    \E origin \in Origins, proxy \in Accounts, call \in Calls :
        LET r == execute_call(Proxies, origin, proxy, call)
        IN  /\ UNCHANGED Proxies
            /\ last' = Record("execute_call", origin, proxy, {}, call, r.result, Proxies)
            /\ events' = r.events
            /\ dispatches' = r.dispatches
            /\ follows_add' = FALSE
            /\ add_pre' = <<>>
            /\ UNCHANGED added

AddProxy ==
    \E origin \in Origins, proxy \in Accounts, filter \in Filters :
        LET r == add_proxy(Proxies, origin, proxy, filter)
        IN  /\ Proxies' = r.proxies
            /\ last' = Record("add_proxy", origin, proxy, filter, NoCall, r.result, Proxies)
            /\ events' = <<>>
            /\ dispatches' = <<>>
            /\ follows_add' = AddedOk(last, proxy, filter)
            /\ add_pre' = (IF AddedOk(last, proxy, filter) THEN last.pre ELSE <<>>)
            /\ added' = (IF r.result = Ok THEN added \cup {proxy} ELSE added)

RemoveProxy ==
    \E origin \in Origins, proxy \in Accounts, filter \in Filters :
        LET r == remove_proxy(Proxies, origin, proxy, filter)
        IN  /\ Proxies' = r.proxies
            /\ last' = Record("remove_proxy", origin, proxy, filter, NoCall, r.result, Proxies)
            /\ events' = <<>>
            /\ dispatches' = <<>>
            /\ follows_add' = AddedOk(last, proxy, filter)
            /\ add_pre' = (IF AddedOk(last, proxy, filter) THEN last.pre ELSE <<>>)
            /\ added' = added \ {proxy}

Next == ExecuteCall \/ AddProxy \/ RemoveProxy

Spec == Init /\ [][Next]_vars

TypeOK ==
    /\ Proxies \in Seq([proxy : Accounts, filter : Filters])
    /\ last.op \in {"none", "execute_call", "add_proxy", "remove_proxy"}
    /\ Len(events) <= 1
    /\ Len(dispatches) <= 1
    /\ follows_add \in BOOLEAN
    /\ add_pre \in Seq([proxy : Accounts, filter : Filters])
    /\ added \subseteq Accounts


(* ------------------------------------------------------------------ *)
(* Properties                                                          *)
(* ------------------------------------------------------------------ *)

\* The extrinsic executed last was op.
Was(op) == last.op = op

\* The registry before the last extrinsic holds a definition for proxy p.
Registered(p) == \E i \in 1..Len(last.pre) : last.pre[i].proxy = p

\* The registry before the last extrinsic holds, for proxy p, a definition
\* whose filter is a superset of f.
Covered(p, f) ==
    \E i \in 1..Len(last.pre) : last.pre[i].proxy = p /\ is_superset(last.pre[i].filter, f)

\* The first definition for the last extrinsic's proxy, in registry order.
Grant == last.pre[FirstIndex(last.pre, last.proxy)]

\* The last extrinsic was an execute_call that dispatched its call.
Dispatched == Was("execute_call") /\ dispatches # <<>>

\* C1: in every reachable state the number of definitions stored in Proxies
\* is at most MaxProxies.
C1_RegistryBounded == Len(Proxies) <= MaxProxies

\* C1 witness: an admin's add_proxy filled the registry to MaxProxies.
C1_Witness ==
    /\ Was("add_proxy") /\ last.result = Ok
    /\ Len(last.pre) = MaxProxies - 1
    /\ Len(Proxies) = MaxProxies

\* C2: add_proxy by an admin on a full registry that holds no covering
\* definition for the proxy fails with TooManyProxies and leaves the registry
\* as it was (same entries, same order).
C2_FullAddFails ==
    (/\ Was("add_proxy")
     /\ last.origin \in ProxyAdmin
     /\ Len(last.pre) = MaxProxies
     /\ ~Covered(last.proxy, last.filter))
    => (last.result = Err("TooManyProxies") /\ Proxies = last.pre)

\* C2 witness: such an add_proxy was rejected.
C2_Witness ==
    /\ Was("add_proxy") /\ last.origin \in ProxyAdmin
    /\ Len(last.pre) = MaxProxies
    /\ ~Covered(last.proxy, last.filter)
    /\ last.result = Err("TooManyProxies")

\* C3: execute_call by a caller failing the executor gate returns BadOrigin,
\* leaves the registry unchanged, dispatches nothing and deposits no event.
C3_UnauthorizedExecute ==
    (Was("execute_call") /\ last.origin \notin CollectiveProxy)
    => (/\ last.result = Err("BadOrigin")
        /\ Proxies = last.pre
        /\ dispatches = <<>>
        /\ events = <<>>)

\* C3 witness: the rejected caller named a proxy that is registered.
C3_Witness ==
    /\ Was("execute_call") /\ last.origin \notin CollectiveProxy
    /\ Registered(last.proxy)
    /\ last.result = Err("BadOrigin")

C5_OutcomeInEvent ==
    (Was("execute_call") /\ last.origin \in CollectiveProxy /\ Registered(last.proxy))
    => (/\ last.result = Ok
        /\ Len(dispatches) = 1
        /\ Len(events) = 1
        /\ events[1].event = "CollectiveProxyExecuted"
        /\ (dispatches[1].outcome.tag = "Ok" => events[1].result = Ok)
        /\ (dispatches[1].outcome.tag = "Err"
                => events[1].result = Err(dispatches[1].outcome.error)))

\* C5 witness: the dispatched call failed in its own body and execute_call
\* returned Ok.
C5_Witness ==
    /\ Dispatched
    /\ last.result = Ok
    /\ dispatches[1].outcome.tag = "Err"
    /\ dispatches[1].outcome.error = "Other"
    /\ Len(events) = 1

\* C6: execute_call by a caller passing the executor gate for a proxy without
\* a definition fails with NotFound, dispatches nothing, deposits no event and
\* leaves the registry unchanged.
C6_NotFound ==
    (Was("execute_call") /\ last.origin \in CollectiveProxy /\ ~Registered(last.proxy))
    => (/\ last.result = Err("NotFound")
        /\ dispatches = <<>>
        /\ events = <<>>
        /\ Proxies = last.pre)

\* C6 witness: the lookup failed in a registry that holds other proxies.
C6_Witness ==
    /\ Was("execute_call") /\ last.origin \in CollectiveProxy
    /\ ~Registered(last.proxy)
    /\ last.pre # <<>>
    /\ last.result = Err("NotFound")

\* C7: every call run under the delegated origin is permitted by the resolved
\* definition's filter; a submitted call the filter denies is not run, the
\* event carries a failure, and execute_call still returns Ok; a denied
\* nested call makes the outcome a failure as well.
C7_FilterEnforced ==
    Dispatched
    => (/\ \A i \in 1..Len(dispatches[1].outcome.ran) :
                permits(Grant.filter, dispatches[1].outcome.ran[i])
        /\ (~permits(Grant.filter, last.call.kind)
                => (/\ dispatches[1].outcome.ran = <<>>
                    /\ events = <<CollectiveProxyExecuted(Err("CallFiltered"))>>
                    /\ last.result = Ok))
        /\ ((\E i \in 1..Len(last.call.subs) : ~permits(Grant.filter, last.call.subs[i]))
                => (Len(events) = 1 /\ events[1].result.tag = "Err")))

\* C7 witness: the definition's filter denied the submitted call, the event
\* reports the failure and execute_call returned Ok.
C7_Witness ==
    /\ Dispatched
    /\ ~permits(Grant.filter, last.call.kind)
    /\ Grant.filter # {}
    /\ events = <<CollectiveProxyExecuted(Err("CallFiltered"))>>
    /\ last.result = Ok

\* C8: add_proxy and remove_proxy by a caller failing the admin gate return
\* BadOrigin and leave the registry exactly as it was.
C8_UnauthorizedAdmin ==
    ((Was("add_proxy") \/ Was("remove_proxy")) /\ last.origin \notin ProxyAdmin)
    => (last.result = Err("BadOrigin") /\ Proxies = last.pre)

\* C8 witness: a rejected remove_proxy named a definition that is stored.
C8_Witness ==
    /\ Was("remove_proxy") /\ last.origin \notin ProxyAdmin
    /\ \E i \in 1..Len(last.pre) : last.pre[i] = ProxyDefinition(last.proxy, last.filter)
    /\ last.result = Err("BadOrigin")

\* C9: a caller passing only the executor gate never changes the registry
\* with add_proxy or remove_proxy, and a caller passing only the admin gate
\* never has a call dispatched by execute_call.
C9_GatesIndependent ==
    /\ ((Was("add_proxy") \/ Was("remove_proxy"))
            /\ last.origin \in CollectiveProxy \ ProxyAdmin)
       => Proxies = last.pre
    /\ (Was("execute_call") /\ last.origin \in ProxyAdmin \ CollectiveProxy)
       => dispatches = <<>>

\* C9 witness: an executor-only caller tried an add_proxy that an admin
\* would have had appended.
C9_Witness ==
    /\ Was("add_proxy")
    /\ last.origin \in CollectiveProxy \ ProxyAdmin
    /\ Len(last.pre) < MaxProxies
    /\ ~Covered(last.proxy, last.filter)

\* C10: an add_proxy by an admin right after a successful add_proxy with the
\* same proxy and filter returns Ok and leaves the registry as the first
\* add_proxy left it.
C10_AddTwice ==
    (Was("add_proxy") /\ follows_add /\ last.origin \in ProxyAdmin)
    => (last.result = Ok /\ Proxies = last.pre /\ Len(Proxies) = Len(last.pre))

\* C10 witness: the second add_proxy ran on a registry whose last entry is
\* the definition the first one appended.
C10_Witness ==
    /\ Was("add_proxy") /\ follows_add /\ last.origin \in ProxyAdmin
    /\ last.pre # <<>>
    /\ last.pre[Len(last.pre)] = ProxyDefinition(last.proxy, last.filter)
    /\ last.result = Ok

\* The definition (p, f) is stored in the registry ps.
Stored(ps, p, f) == \E i \in 1..Len(ps) : ps[i] = ProxyDefinition(p, f)

\* The lowest registry index, before the last extrinsic, of a definition for
\* the last extrinsic's proxy.
LowestIndex ==
    CHOOSE i \in {k \in 1..Len(last.pre) : last.pre[k].proxy = last.proxy} :
        \A j \in {k \in 1..Len(last.pre) : last.pre[k].proxy = last.proxy} : i <= j

\* C11 as stated: remove_proxy by an admin right after a successful add_proxy
\* with the same proxy and filter leaves the registry equal to the registry
\* before the add_proxy.
C11_RoundTrip ==
    (Was("remove_proxy") /\ follows_add /\ last.origin \in ProxyAdmin)
    => Proxies = add_pre

\* C11 amended: when the registry before the add_proxy did not already store
\* the definition (p, f1), a successful add_proxy(p, f1) followed at once by
\* an admin's remove_proxy(p, f1) leaves the registry equal (same entries,
\* same order) to the registry before the add_proxy.
C11_RoundTripFresh ==
    (/\ Was("remove_proxy") /\ follows_add /\ last.origin \in ProxyAdmin
     /\ ~Stored(add_pre, last.proxy, last.filter))
    => (last.result = Ok /\ Proxies = add_pre)

\* C11 witness: the add_proxy appended to a non-empty registry and the
\* remove_proxy took the definition away again.
C11_Witness ==
    /\ Was("remove_proxy") /\ follows_add /\ last.origin \in ProxyAdmin
    /\ ~Stored(add_pre, last.proxy, last.filter)
    /\ add_pre # <<>>
    /\ last.pre = Append(add_pre, ProxyDefinition(last.proxy, last.filter))
    /\ Proxies = add_pre

\* C12: remove_proxy by an admin returns Ok and leaves the registry it found
\* with every entry equal to (p, f) deleted and all other entries kept in
\* their order; without such an entry the registry is unchanged.
C12_RemoveExact ==
    (Was("remove_proxy") /\ last.origin \in ProxyAdmin)
    => (/\ last.result = Ok
        /\ Proxies = SelectSeq(last.pre,
                               LAMBDA d : d # ProxyDefinition(last.proxy, last.filter))
        /\ (~Stored(last.pre, last.proxy, last.filter) => Proxies = last.pre))

\* C12 witness: the removed definition had a neighbour for the same proxy
\* with another filter, which stayed.
C12_Witness ==
    /\ Was("remove_proxy") /\ last.origin \in ProxyAdmin
    /\ Stored(last.pre, last.proxy, last.filter)
    /\ Len(Proxies) = Len(last.pre) - 1
    /\ \E i \in 1..Len(Proxies) :
            Proxies[i].proxy = last.proxy /\ Proxies[i].filter # last.filter

\* C13: add_proxy by an admin returns Ok without changing the registry when
\* a definition for the proxy with a superset filter is stored, also on a
\* full registry; otherwise, below capacity, it returns Ok and the registry
\* becomes the old one with (p, f) appended as its last entry.
C13_AddAppends ==
    (Was("add_proxy") /\ last.origin \in ProxyAdmin)
    => (/\ Covered(last.proxy, last.filter)
            => (last.result = Ok /\ Proxies = last.pre)
        /\ (~Covered(last.proxy, last.filter) /\ Len(last.pre) < MaxProxies)
            => (/\ last.result = Ok
                /\ Proxies = Append(last.pre, ProxyDefinition(last.proxy, last.filter))))

\* C13 witness: a covered add_proxy returned Ok on a full registry.
C13_Witness ==
    /\ Was("add_proxy") /\ last.origin \in ProxyAdmin
    /\ Covered(last.proxy, last.filter)
    /\ ~Stored(last.pre, last.proxy, last.filter)
    /\ Len(last.pre) = MaxProxies
    /\ last.result = Ok

\* C14: find_proxy returns the definition at the lowest index whose proxy is
\* p and fails with NotFound exactly when no definition has proxy p;
\* execute_call dispatches with that first definition's filter.
C14_FirstMatch ==
    /\ \A p \in Accounts :
          /\ (find_proxy(Proxies, p).result = Err("NotFound"))
                <=> ~(\E i \in 1..Len(Proxies) : Proxies[i].proxy = p)
          /\ (find_proxy(Proxies, p).result # Err("NotFound"))
                => (/\ find_proxy(Proxies, p).result = Ok
                    /\ \E i \in 1..Len(Proxies) :
                          /\ Proxies[i] = find_proxy(Proxies, p).def
                          /\ Proxies[i].proxy = p
                          /\ \A j \in 1..(i - 1) : Proxies[j].proxy # p)
    /\ (Was("execute_call") /\ last.origin \in CollectiveProxy)
          => (/\ (last.result = Err("NotFound")) <=> ~Registered(last.proxy)
              /\ Registered(last.proxy)
                    => (/\ Len(dispatches) = 1
                        /\ dispatches[1].origin.filters
                              = <<last.pre[LowestIndex].filter>>))

\* C14 witness: a call was dispatched for a proxy that has a second
\* definition further down the registry.
C14_Witness ==
    /\ Dispatched
    /\ \E j \in 1..Len(last.pre) : j > LowestIndex /\ last.pre[j].proxy = last.proxy
    /\ dispatches[1].origin.filters = <<last.pre[LowestIndex].filter>>

\* C15: the registry is empty before the first extrinsic, and execute_call
\* leaves it as it found it in every outcome (BadOrigin, NotFound, dispatched
\* call succeeded, dispatched call failed).
C15_ExecuteKeepsRegistry ==
    /\ Was("none") => Proxies = <<>>
    /\ Was("execute_call")
          => (/\ Proxies = last.pre
              /\ \/ last.result = Err("BadOrigin") /\ dispatches = <<>>
                 \/ last.result = Err("NotFound") /\ dispatches = <<>>
                 \/ last.result = Ok /\ Len(dispatches) = 1)

\* C15 witness: a dispatched call succeeded and the non-empty registry is as
\* it was.
C15_Witness ==
    /\ Dispatched
    /\ dispatches[1].outcome.tag = "Ok"
    /\ last.pre # <<>>
    /\ Proxies = last.pre

\* C16: when a proxy holds a first definition and a later one, execute_call
\* applies the first one's filter only: a call the later filter permits and
\* the first one denies is rejected with CallFiltered and not run, in every
\* state where that first definition is still stored before the later one.
C16_OnlyFirstGrant ==
    (/\ Dispatched
     /\ ~permits(last.pre[LowestIndex].filter, last.call.kind)
     /\ \E j \in 1..Len(last.pre) :
            /\ j > LowestIndex
            /\ last.pre[j].proxy = last.proxy
            /\ permits(last.pre[j].filter, last.call.kind))
    => (/\ dispatches[1].outcome.error = "CallFiltered"
        /\ dispatches[1].outcome.ran = <<>>
        /\ events = <<CollectiveProxyExecuted(Err("CallFiltered"))>>)

\* C16 witness: the proxy holds a narrower definition first and a broader one
\* later, and a call only the later one permits was rejected.
C16_Witness ==
    /\ Dispatched
    /\ ~permits(last.pre[LowestIndex].filter, last.call.kind)
    /\ \E j \in 1..Len(last.pre) :
            /\ j > LowestIndex
            /\ last.pre[j].proxy = last.proxy
            /\ permits(last.pre[j].filter, last.call.kind)
            /\ is_superset(last.pre[j].filter, last.pre[LowestIndex].filter)
    /\ dispatches[1].outcome.error = "CallFiltered"

\* C17: execute_call by a caller failing the executor gate, for a proxy
\* without a definition, returns BadOrigin and not NotFound.
C17_GateBeforeLookup ==
    (Was("execute_call") /\ last.origin \notin CollectiveProxy /\ ~Registered(last.proxy))
    => (last.result = Err("BadOrigin") /\ last.result # Err("NotFound"))

\* C17 witness: such a call was made on a registry holding another proxy.
C17_Witness ==
    /\ Was("execute_call") /\ last.origin \notin CollectiveProxy
    /\ ~Registered(last.proxy)
    /\ last.pre # <<>>
    /\ last.result = Err("BadOrigin")

\* C18: for two entries at indices i < j with the same proxy, the filter at
\* i is not a superset of the filter at j; so no definition is stored twice
\* and remove_proxy deletes at most one entry.
C18_NoCoveredLater ==
    /\ \A i, j \in 1..Len(Proxies) :
          (i < j /\ Proxies[i].proxy = Proxies[j].proxy)
              => ~is_superset(Proxies[i].filter, Proxies[j].filter)
    /\ \A i, j \in 1..Len(Proxies) : Proxies[i] = Proxies[j] => i = j
    /\ Was("remove_proxy") => Len(last.pre) - Len(Proxies) \in {0, 1}

\* C18 witness: one proxy holds two definitions, and an add_proxy of a
\* filter the first one covers was just answered without a push.
C18_Witness ==
    /\ \E i, j \in 1..Len(Proxies) : i < j /\ Proxies[i].proxy = Proxies[j].proxy
    /\ Was("add_proxy") /\ last.result = Ok
    /\ Covered(last.proxy, last.filter)

\* C19: after an add_proxy for p returned Ok, and while no remove_proxy for p
\* was called, execute_call for p by a caller passing the executor gate does
\* not fail with NotFound.
C19_AddedResolves ==
    (Was("execute_call") /\ last.origin \in CollectiveProxy /\ last.proxy \in added)
    => (last.result # Err("NotFound") /\ Registered(last.proxy))

\* C19 witness: the call was dispatched for an added proxy while the other
\* account is not (or no longer) among the added ones.
C19_Witness ==
    /\ Was("execute_call") /\ last.origin \in CollectiveProxy
    /\ last.proxy \in added
    /\ added # Accounts
    /\ last.result = Ok
    /\ dispatches # <<>>

====
